---- MODULE Spec2Model ----
(***************************************************************************)
(* Model of the question endpoints of the JEE solver backend               *)
(* (app/api/v1/endpoints/questions.py): generate_quiz and                  *)
(* generate_explanation, the Gemini calls they make and the Firestore      *)
(* writes of generate_quiz.                                                *)
(***************************************************************************)
EXTENDS Integers, Sequences, FiniteSets, TLC

\* ------------------------------------------------------------------ bounds
\* Longest upstream list enumerated item by item (every sequence over Pool).
MaxLen == 2
\* Longest sequence of answers the upstream service has ready for successive
\* attempts of one call.
MaxScript == 2
\* Longest upstream list of a request that runs beside another one.
MaxConcLen == 2

\* ------------------------------------------------------- program constants
CountQuick == 5
CountFull == 30
CountDefault == 10
\* "id": None
NoId == 0

\* Python's None for an optional request field, and a key absent from a dict.
None == "<None>"
Absent == "<absent>"

Reqs == {1, 2}

NTA_SYLLABUS ==
  [s \in {"Physics", "Chemistry", "Maths"} |->
     CASE s = "Physics" ->
            <<"Units and Measurements", "Kinematics", "Laws of Motion", "Work Energy Power",
              "Rotational Motion", "Gravitation", "Thermodynamics", "Kinetic Theory",
              "Waves", "Electrostatics", "Current Electricity", "Magnetism",
              "EM Induction and AC", "Optics", "Modern Physics">>
       [] s = "Chemistry" ->
            <<"Some Basic Concepts of Chemistry", "Atomic Structure", "Chemical Bonding",
              "States of Matter", "Thermodynamics", "Equilibrium", "Redox Reactions",
              "s-Block Elements", "p-Block Elements", "d- and f- Block Elements",
              "Coordination Compounds", "Organic Chemistry Basics", "Hydrocarbons",
              "Haloalkanes and Haloarenes", "Alcohols Phenols Ethers", "Aldehydes Ketones Acids",
              "Amines", "Biomolecules", "Polymers", "Chemistry in Everyday Life">>
       [] OTHER ->
            <<"Sets Relations Functions", "Complex Numbers", "Quadratic Equations", "Sequences and Series",
              "Trigonometry", "Matrices Determinants", "Limits Continuity Differentiability",
              "Applications of Derivatives", "Integrals", "Differential Equations",
              "Vectors", "3D Geometry", "Probability", "Binomial Theorem", "Statistics">>]

\* NTA_SYLLABUS.get(subject, [])
SyllabusGet(subject) ==
  IF subject \in DOMAIN NTA_SYLLABUS THEN NTA_SYLLABUS[subject] ELSE <<>>

Range(s) == {s[i] : i \in DOMAIN s}

\* ------------------------------------------------------------ request inputs
Subjects == {"Physics", "Biology"}
Modes == {"quick", "topic", "full", "mock_test"}
Topics == {None, "", "Kinematics", "Atomic Structure"}

\* Python truthiness of an Optional[str]
Truthy(s) == s # None /\ s # Absent /\ s # ""

\* The topic check without its membership test.
TopicRejectedIfEmpty(subject, mode, topic) == mode = "topic" /\ ~Truthy(topic)
\* mode == "topic" and (not req.topic or req.topic not in NTA_SYLLABUS.get(subject, []))
TopicRejected(subject, mode, topic) ==
  mode = "topic" /\ (~Truthy(topic) \/ topic \notin Range(SyllabusGet(subject)))

\* count = 5 if mode == "quick" else 30 if mode == "full" else 10
TargetCount(mode) ==
  IF mode = "quick" THEN CountQuick ELSE IF mode = "full" THEN CountFull ELSE CountDefault

\* mode.replace('_', ' ').title(), on the modes of Modes
TitleCase(mode) ==
  CASE mode = "quick" -> "Quick"
    [] mode = "topic" -> "Topic"
    [] mode = "full" -> "Full"
    [] mode = "mock_test" -> "Mock Test"
    [] OTHER -> mode

\* f"{subject} - {mode.replace('_', ' ').title()} Practice"
QuizTitle(subject, mode) == <<subject, " - ", TitleCase(mode), " Practice">>

\* ------------------------------------------------- upstream items (JSON values)
\* The value under "answer_index": t is its JSON type, n its number (a float is
\* kept in tenths: 27 is 2.7; a numeric string "2" is t = "numstr", n = 2).
AiInt(k) == [t |-> "int", n |-> k]
AiFloat10(k) == [t |-> "float", n |-> k]
AiBool(k) == [t |-> "bool", n |-> k]
AiNumStr(k) == [t |-> "numstr", n |-> k]
AiStr == [t |-> "str", n |-> 0]
AiNull == [t |-> "null", n |-> 0]
AiMissing == [t |-> "missing", n |-> 0]

\* The value under "options": a list of strings, a string (e its characters),
\* an object, null, or no such key.
OptList(e) == [t |-> "list", e |-> e]
OptStr(e) == [t |-> "str", e |-> e]
OptDict == [t |-> "dict", e |-> <<>>]
OptNull == [t |-> "null", e |-> <<>>]
OptMissing == [t |-> "missing", e |-> <<>>]
\* a non-zero number where a list is expected
OptNumber == [t |-> "number", e |-> <<>>]

Opt3 == OptList(<<"A", "B", "C">>)
Opt4 == OptList(<<"A", "B", "C", "D">>)
Opt5 == OptList(<<"A", "B", "C", "D", "E">>)

Item(ai, opts) ==
  [dict |-> TRUE, question |-> [present |-> TRUE, text |-> 0], options |-> opts,
   answer_index |-> ai, topic |-> "Waves", hint |-> "H", explanation |-> "E"]

ValidItem == Item(AiInt(1), Opt4)
\* A valid item that carries only the three required keys.
BareItem == [ValidItem EXCEPT !.topic = Absent, !.hint = Absent, !.explanation = Absent]
\* An array element that is no object (a string, a number).
NotDictItem == [ValidItem EXCEPT !.dict = FALSE]
NoQuestionItem == [ValidItem EXCEPT !.question = [present |-> FALSE, text |-> 0]]

Pool ==
  { ValidItem, BareItem, NotDictItem, NoQuestionItem,
    Item(AiInt(-1), Opt4), Item(AiInt(4), Opt4), Item(AiMissing, Opt4),
    Item(AiInt(0), Opt3), Item(AiInt(4), Opt5),
    Item(AiInt(1), OptStr(<<"a", "b", "c", "d">>)), Item(AiInt(0), OptDict),
    Item(AiNumStr(2), Opt4), Item(AiFloat10(27), Opt4), Item(AiBool(1), Opt4) }

\* The i-th element of a reply carries question text number i.
Relabel(list) ==
  [i \in 1..Len(list) |-> [list[i] EXCEPT !.question.text = i]]

ShortLists == UNION {[1..n -> Pool] : n \in 0..MaxLen}
\* Replies sized to the request: one item of Pool, then valid items, count - 1,
\* count or count + 1 items in all.
SizedLists(count) ==
  { [i \in 1..n |-> IF i = 1 THEN x ELSE ValidItem] :
      x \in Pool, n \in {count - 1, count, count + 1} }
ItemLists(count) == {Relabel(l) : l \in ShortLists \cup SizedLists(count)}
\* The replies to a call that asked for count items, count being one of the three
\* the handler computes.
ItemListsQuick == ItemLists(CountQuick)
ItemListsFull == ItemLists(CountFull)
ItemListsDefault == ItemLists(CountDefault)
ListsFor(count) ==
  IF count = CountQuick THEN ItemListsQuick
  ELSE IF count = CountFull THEN ItemListsFull ELSE ItemListsDefault

\* The replies to a request that runs beside another one: short lists of an item
\* that takes its topic from the request and an item the loop drops.
ConcPool == {BareItem, Item(AiMissing, Opt4)}
ConcLists == {Relabel(l) : l \in UNION {[1..n -> ConcPool] : n \in 0..MaxConcLen}}

\* --------------------------------------------------------- Python semantics
\* int(x): [ok, v]; a ValueError or TypeError is ok = FALSE
PyInt(x) ==
  CASE x.t = "int" -> [ok |-> TRUE, v |-> x.n]
    [] x.t = "bool" -> [ok |-> TRUE, v |-> x.n]
    [] x.t = "numstr" -> [ok |-> TRUE, v |-> x.n]
    [] x.t = "float" ->
         [ok |-> TRUE, v |-> IF x.n >= 0 THEN x.n \div 10 ELSE -((-x.n) \div 10)]
    [] OTHER -> [ok |-> FALSE, v |-> 0]

\* o[i] for an int i: [ok, v]; IndexError, KeyError and TypeError are ok = FALSE.
\* A list or a string takes i in -len .. len - 1, a negative i counting from the end.
PyIndex(o, i) ==
  IF o.t \in {"list", "str"} /\ i >= -Len(o.e) /\ i < Len(o.e)
  THEN [ok |-> TRUE, v |-> o.e[(IF i < 0 THEN i + Len(o.e) ELSE i) + 1]]
  ELSE [ok |-> FALSE, v |-> ""]

\* d.get(key, default) for a key that holds a string when present
DictGet(v, default) == IF v = Absent THEN default ELSE v

\* a or b
PyOr(a, b) == IF Truthy(a) THEN a ELSE b

\* The body of the try of the cleaning loop: ok = FALSE when it raises.
CleanOne(q, subject, reqTopic) ==
  LET ai == PyInt(q.answer_index)
      ca == PyIndex(q.options, ai.v)
  IN  [ok |-> /\ q.dict
              /\ q.answer_index.t # "missing"
              /\ ai.ok
              /\ q.question.present
              /\ q.options.t # "missing"
              /\ ca.ok,
       val |-> [id |-> NoId,
                subject |-> subject,
                topic |-> DictGet(q.topic, PyOr(reqTopic, "Mixed")),
                question |-> q.question.text,
                options |-> q.options,
                answer_index |-> ai.v,
                correctAnswer |-> ca.v,
                hint |-> DictGet(q.hint, "No hint available."),
                explanation |-> DictGet(q.explanation, "No explanation available.")]]

\* items[:count]
\* The loop over items without the slice.
SliceAll(items, count) == items
Slice(items, count) == SubSeq(items, 1, IF Len(items) < count THEN Len(items) ELSE count)

RECURSIVE CleanLoop(_, _, _)
\* for q in ...: try: cleaned.append({...}) except Exception: continue
CleanLoop(items, subject, reqTopic) ==
  IF items = <<>> THEN <<>>
  ELSE LET c == CleanOne(Head(items), subject, reqTopic)
           rest == CleanLoop(Tail(items), subject, reqTopic)
       IN  IF c.ok THEN <<c.val>> \o rest ELSE rest

Cleaned(items, count, subject, reqTopic) ==
  CleanLoop(Slice(items, count), subject, reqTopic)

\* ------------------------------------------------------------------- state
VARIABLES
  envKey,       \* os.getenv("GEMINI_API_KEY") is set
  db,           \* the module's Firestore client is not None
  store,        \* the documents of the "questions" collection
  nextId,       \* the next automatic document id the collection hands out
  endpoint,     \* the route a request came in on: "quiz", "explain", or "none"
  pc,           \* where each request's handler stands
  req,          \* the GenerateRequest of a generate-quiz request
  ereq,         \* the body of a generate-explanation request
  count,        \* generate_quiz's count
  upstream,     \* the answers the service has for successive attempts of the call
  items,        \* what _call_gemini returned
  cleaned,      \* generate_quiz's cleaned
  saveIdx,      \* position of the saving loop in cleaned (1-based)
  saveFailed,   \* the saving loop ended in its except clause
  resp,         \* the HTTP response, status 0 while there is none
  apiCalls,     \* requests.post calls made for the request
  storeWrites   \* doc_ref.set calls made for the request

vars == <<envKey, db, store, nextId, endpoint, pc, req, ereq, count, upstream, items, cleaned,
          saveIdx, saveFailed, resp, apiCalls, storeWrites>>

QuizReqs == [subject : Subjects, mode : Modes, topic : Topics]
\* The requests of two generate-quiz calls in flight together.
ConcReqs ==
  { [subject |-> "Physics", mode |-> "topic", topic |-> "Kinematics"],
    [subject |-> "Biology", mode |-> "quick", topic |-> None] }
NoQuizReq == [subject |-> "", mode |-> "", topic |-> None]

ExplainBodies ==
  [question : {Absent, "", "Q"},
   options : {OptMissing, OptNull, OptList(<<>>), Opt4, OptDict, OptNumber},
   correctAnswer : {Absent, "", "A"},
   userAnswer : {Absent, "B"}]
NoExplainBody ==
  [question |-> Absent, options |-> OptMissing, correctAnswer |-> Absent, userAnswer |-> Absent]

NoExplanation == [t |-> "none", kind |-> "", arg |-> ""]
ExplanationStr(kind, arg) == [t |-> "str", kind |-> kind, arg |-> arg]

NoResp == [status |-> 0, questions |-> <<>>, quizTitle |-> <<>>, explanation |-> NoExplanation]
\* raise HTTPException(status_code=...), or an exception no handler catches (500)
Failure(status) == [NoResp EXCEPT !.status = status]
\* return {"questions": cleaned, "quizTitle": ...}
QuizSuccess(qs, subject, mode) ==
  [NoResp EXCEPT !.status = 200, !.questions = qs, !.quizTitle = QuizTitle(subject, mode)]
\* return {"explanation": ...}
ExplainSuccess(e) == [NoResp EXCEPT !.status = 200, !.explanation = e]

\* What the service answers to one attempt.
Outcomes ==
  {"ok", "timeout", "network", "http429", "http503", "http400",
   "body_not_json", "bad_envelope", "text_not_json", "not_list"}
\* requests.post or raise_for_status raises a RequestException
RequestExceptions == {"timeout", "network", "http429", "http503", "http400"}
\* server-error and rate-limit statuses
Transient == {"http429", "http503"}
\* Answers to successive attempts; an attempt follows only a failed one.
Scripts ==
  { s \in UNION {[1..n -> Outcomes] : n \in 1..MaxScript} :
      \A i \in 1..(Len(s) - 1) : s[i] \in RequestExceptions }
\* With two requests in flight only the answer to the one attempt is drawn.
ConcScripts == {<<o>> : o \in Outcomes}

Init ==
  /\ envKey \in BOOLEAN
  /\ db \in BOOLEAN
  /\ store = {}
  /\ nextId = 1
  /\ \/ \E q \in QuizReqs :
          /\ req = [r \in Reqs |-> IF r = 1 THEN q ELSE NoQuizReq]
          /\ ereq = [r \in Reqs |-> NoExplainBody]
          /\ pc = [r \in Reqs |-> IF r = 1 THEN "recv" ELSE "idle"]
          /\ endpoint = [r \in Reqs |-> IF r = 1 THEN "quiz" ELSE "none"]
     \/ \E b \in ExplainBodies :
          /\ req = [r \in Reqs |-> NoQuizReq]
          /\ ereq = [r \in Reqs |-> IF r = 1 THEN b ELSE NoExplainBody]
          /\ pc = [r \in Reqs |-> IF r = 1 THEN "erecv" ELSE "idle"]
          /\ endpoint = [r \in Reqs |-> IF r = 1 THEN "explain" ELSE "none"]
  /\ count = [r \in Reqs |-> 0]
  /\ upstream = [r \in Reqs |-> <<>>]
  /\ items = [r \in Reqs |-> <<>>]
  /\ cleaned = [r \in Reqs |-> <<>>]
  /\ saveIdx = [r \in Reqs |-> 0]
  /\ saveFailed = [r \in Reqs |-> FALSE]
  /\ resp = [r \in Reqs |-> NoResp]
  /\ apiCalls = [r \in Reqs |-> 0]
  /\ storeWrites = [r \in Reqs |-> 0]

\* The handler of request r ends with response x.
Respond(r, x) ==
  /\ pc' = [pc EXCEPT ![r] = "done"]
  /\ resp' = [resp EXCEPT ![r] = x]

\* ------------------------------------------------------------ generate_quiz
\* Lines 141-149: the topic check, count and the prompt.
Validate(r) ==
  /\ pc[r] = "recv"
  /\ IF TopicRejected(req[r].subject, req[r].mode, req[r].topic)
     THEN /\ Respond(r, Failure(400))
          /\ UNCHANGED count
     ELSE /\ pc' = [pc EXCEPT ![r] = "call"]
          /\ count' = [count EXCEPT ![r] = TargetCount(req[r].mode)]
          /\ UNCHANGED resp
  /\ UNCHANGED <<envKey, db, endpoint, store, nextId, req, ereq, upstream, items, cleaned,
                 saveIdx, saveFailed, apiCalls, storeWrites>>

\* Every request slot holds a request.
Concurrent == \A r \in Reqs : endpoint[r] # "none"
\* What the service may answer to the call of request r.
Replies(r) == IF Concurrent THEN ConcLists ELSE ListsFor(count[r])
Answers == IF Concurrent THEN ConcScripts ELSE Scripts

\* A key check that lets an unset key through.
KeyMissingIgnored(key) == FALSE
\* _get_gemini_key: `if not key: raise HTTPException(status_code=500, ...)`
KeyMissing(key) == ~key

\* _get_gemini_key raises while _call_gemini builds the url.
GeminiKeyMissing(r) ==
  /\ pc[r] = "call"
  /\ KeyMissing(envKey)
  /\ Respond(r, Failure(500))
  /\ UNCHANGED <<envKey, db, endpoint, store, nextId, req, ereq, count, upstream, items, cleaned,
                 saveIdx, saveFailed, apiCalls, storeWrites>>

\* The status _call_gemini ends the request with when the attempt's answer is o.
CallFailureStatus(o) ==
  CASE o \in RequestExceptions -> 502       \* except RequestException: raise 502
    [] o = "body_not_json" -> 500           \* r.json() raises outside any try
    [] o = "bad_envelope" -> 500            \* the handler's f-string reads text, unbound
    [] OTHER -> 502                         \* JSONDecodeError, ValueError: raise 502

\* _call_gemini: one requests.post, and the answer is no list of items.
GeminiFails(r) ==
  /\ pc[r] = "call"
  /\ ~KeyMissing(envKey)
  /\ \E s \in Answers :
       /\ s[1] # "ok"
       /\ upstream' = [upstream EXCEPT ![r] = s]
       /\ Respond(r, Failure(CallFailureStatus(s[1])))
  /\ apiCalls' = [apiCalls EXCEPT ![r] = @ + 1]
  /\ UNCHANGED <<envKey, db, endpoint, store, nextId, req, ereq, count, items, cleaned,
                 saveIdx, saveFailed, storeWrites>>

\* _call_gemini: one requests.post, and the text decodes to a list.
GeminiReplies(r) ==
  /\ pc[r] = "call"
  /\ ~KeyMissing(envKey)
  /\ \E l \in Replies(r) : items' = [items EXCEPT ![r] = l]
  /\ upstream' = [upstream EXCEPT ![r] = <<"ok">>]
  /\ apiCalls' = [apiCalls EXCEPT ![r] = @ + 1]
  /\ pc' = [pc EXCEPT ![r] = "clean"]
  /\ UNCHANGED <<envKey, db, endpoint, store, nextId, req, ereq, count, cleaned,
                 saveIdx, saveFailed, resp, storeWrites>>

\* An empty result sends the handler back to the upstream call.
EmptyResultRetries == [pc |-> "call", resp |-> NoResp]
\* if not cleaned: raise HTTPException(status_code=502, ...)
EmptyResult == [pc |-> "done", resp |-> Failure(502)]

\* Lines 152-171: the cleaning loop, the 502 of an empty result, `if db:`.
Clean(r) ==
  /\ pc[r] = "clean"
  /\ LET c == Cleaned(items[r], count[r], req[r].subject, req[r].topic)
     IN  IF c = <<>>
         THEN /\ pc' = [pc EXCEPT ![r] = EmptyResult.pc]
              /\ resp' = [resp EXCEPT ![r] = EmptyResult.resp]
              /\ UNCHANGED <<cleaned, saveIdx>>
         ELSE /\ cleaned' = [cleaned EXCEPT ![r] = c]
              /\ saveIdx' = [saveIdx EXCEPT ![r] = 1]
              /\ pc' = [pc EXCEPT ![r] = IF db THEN "save" ELSE "return"]
              /\ UNCHANGED resp
  /\ UNCHANGED <<envKey, db, endpoint, store, nextId, req, ereq, count, upstream, items,
                 saveFailed, apiCalls, storeWrites>>

\* The saving loop without its except clause: the exception ends the request.
SaveErrorRaises == [pc |-> "done", resp |-> Failure(500)]
\* Where the handler goes when the saving loop raises: its except clause logs
\* and the handler goes on to its return.
SaveErrorCaught == [pc |-> "return", resp |-> NoResp]

\* An id made from the position in the list instead of a new one.
IdFromPosition(next, i) == i
\* questions_collection.document().id: an automatic id no other document has
AutoId(next, i) == next

\* One turn of the saving loop: document(), the id, and a set() that succeeds.
SaveOk(r) ==
  /\ pc[r] = "save"
  /\ LET i == saveIdx[r]
         doc == [cleaned[r][i] EXCEPT !.id = AutoId(nextId, i)]
     IN  /\ cleaned' = [cleaned EXCEPT ![r][i] = doc]
         /\ store' = {d \in store : d.id # doc.id} \cup {doc}
         /\ pc' = [pc EXCEPT ![r] = IF i = Len(cleaned[r]) THEN "return" ELSE "save"]
  /\ nextId' = nextId + 1
  /\ saveIdx' = [saveIdx EXCEPT ![r] = @ + 1]
  /\ storeWrites' = [storeWrites EXCEPT ![r] = @ + 1]
  /\ UNCHANGED <<envKey, db, endpoint, req, ereq, count, upstream, items, saveFailed, resp, apiCalls>>

\* One turn of the saving loop: document(), the id, and a set() that raises.
SaveFail(r) ==
  /\ pc[r] = "save"
  /\ LET i == saveIdx[r]
     IN  cleaned' = [cleaned EXCEPT ![r][i].id = AutoId(nextId, i)]
  /\ nextId' = nextId + 1
  /\ storeWrites' = [storeWrites EXCEPT ![r] = @ + 1]
  /\ saveFailed' = [saveFailed EXCEPT ![r] = TRUE]
  /\ pc' = [pc EXCEPT ![r] = SaveErrorCaught.pc]
  /\ resp' = [resp EXCEPT ![r] = SaveErrorCaught.resp]
  /\ UNCHANGED <<envKey, db, endpoint, store, req, ereq, count, upstream, items, saveIdx, apiCalls>>

\* Line 188: return {"questions": cleaned, "quizTitle": ...}
Return(r) ==
  /\ pc[r] = "return"
  /\ Respond(r, QuizSuccess(cleaned[r], req[r].subject, req[r].mode))
  /\ UNCHANGED <<envKey, db, endpoint, store, nextId, req, ereq, count, upstream, items, cleaned,
                 saveIdx, saveFailed, apiCalls, storeWrites>>

\* ----------------------------------------------------- generate_explanation
\* request.get(key) of a string field: None when the key is absent
GetOrNone(v) == IF v = Absent THEN None ELSE v

\* Truthiness of the value under "options" (request.get("options", []))
OptTruthy(o) == (o.t \in {"list", "str"} /\ Len(o.e) > 0) \/ o.t \in {"dict", "number"}
\* enumerate(options) does not raise
OptIterable(o) == o.t \in {"list", "str", "dict"}

\* generate_explanation without its except clause.
OuterExceptRaises(body) == Failure(500)
\* Lines 234-237: except Exception: return the fallback text
OuterExcept(body) ==
  ExplainSuccess(ExplanationStr("fallback", DictGet(body.correctAnswer, "the correct option")))

\* Lines 200-229: the fields, the check of the required ones, the prompt.
ExplainPrepare(r) ==
  /\ pc[r] = "erecv"
  /\ LET b == ereq[r]
     IN  IF \/ ~Truthy(GetOrNone(b.question))
            \/ ~OptTruthy(b.options)
            \/ ~Truthy(GetOrNone(b.correctAnswer))
         THEN Respond(r, ExplainSuccess(ExplanationStr("missing", "")))
         ELSE IF ~OptIterable(b.options)
              THEN Respond(r, OuterExcept(b))
              ELSE /\ pc' = [pc EXCEPT ![r] = "ecall"]
                   /\ UNCHANGED resp
  /\ UNCHANGED <<envKey, db, endpoint, store, nextId, req, ereq, count, upstream, items, cleaned,
                 saveIdx, saveFailed, apiCalls, storeWrites>>

\* _get_gemini_key raises while _call_gemini_single builds the url, before its try.
SingleKeyMissing(r) ==
  /\ pc[r] = "ecall"
  /\ KeyMissing(envKey)
  /\ Respond(r, OuterExcept(ereq[r]))
  /\ UNCHANGED <<envKey, db, endpoint, store, nextId, req, ereq, count, upstream, items, cleaned,
                 saveIdx, saveFailed, apiCalls, storeWrites>>

SingleOutcomes ==
  {"ok", "text_not_str", "timeout", "network", "http429", "http503", "http400",
   "body_not_json", "bad_envelope"}

\* What _call_gemini_single returns when the attempt's answer is o: the text, or
\* the fixed sentence of its except clause (a text that is no string has no strip()).
SingleText(o) ==
  IF o = "ok" THEN ExplanationStr("gemini", "") ELSE ExplanationStr("unavailable", "")

\* _call_gemini_single: one requests.post inside try / except Exception.
CallGeminiSingle(r) ==
  /\ pc[r] = "ecall"
  /\ ~KeyMissing(envKey)
  /\ \E o \in SingleOutcomes :
       /\ upstream' = [upstream EXCEPT ![r] = <<o>>]
       /\ Respond(r, ExplainSuccess(SingleText(o)))
  /\ apiCalls' = [apiCalls EXCEPT ![r] = @ + 1]
  /\ UNCHANGED <<envKey, db, endpoint, store, nextId, req, ereq, count, items, cleaned,
                 saveIdx, saveFailed, storeWrites>>

\* One step of generate_quiz for request r.
QuizHandler(r) ==
  \/ Validate(r)
  \/ GeminiKeyMissing(r)
  \/ GeminiFails(r)
  \/ GeminiReplies(r)
  \/ Clean(r)
  \/ SaveOk(r)
  \/ SaveFail(r)
  \/ Return(r)

\* One step of generate_explanation for request r.
ExplainHandler(r) ==
  \/ ExplainPrepare(r)
  \/ SingleKeyMissing(r)
  \/ CallGeminiSingle(r)

\* One step of the handler of request r.
Handler(r) == QuizHandler(r) \/ ExplainHandler(r)

Next == \E r \in Reqs : Handler(r)

Spec == Init /\ [][Next]_vars

\* Two generate-quiz requests in flight together: generate_quiz is a plain def,
\* which the server runs in a thread per request.
InitConc ==
  /\ envKey \in BOOLEAN
  /\ db \in BOOLEAN
  /\ store = {}
  /\ nextId = 1
  /\ \E q \in ConcReqs :
       req = [r \in Reqs |->
                IF r = 1 THEN [subject |-> "Physics", mode |-> "topic", topic |-> "Kinematics"]
                ELSE q]
  /\ ereq = [r \in Reqs |-> NoExplainBody]
  /\ pc = [r \in Reqs |-> "recv"]
  /\ endpoint = [r \in Reqs |-> "quiz"]
  /\ count = [r \in Reqs |-> 0]
  /\ upstream = [r \in Reqs |-> <<>>]
  /\ items = [r \in Reqs |-> <<>>]
  /\ cleaned = [r \in Reqs |-> <<>>]
  /\ saveIdx = [r \in Reqs |-> 0]
  /\ saveFailed = [r \in Reqs |-> FALSE]
  /\ resp = [r \in Reqs |-> NoResp]
  /\ apiCalls = [r \in Reqs |-> 0]
  /\ storeWrites = [r \in Reqs |-> 0]

NextConc == \E r \in Reqs : QuizHandler(r)

SpecConc == InitConc /\ [][NextConc]_vars

\* Each handler runs in a worker of its own and every call it waits on returns
\* or raises (requests.post has a timeout): a handler that can step does step.
FairSpec == Spec /\ \A r \in Reqs : WF_vars(Handler(r))

\* ===================================================================== claims
IsQuiz(r) == endpoint[r] = "quiz"
IsExplain(r) == endpoint[r] = "explain"
\* _call_gemini returned a list to request r.
GotItems(r) == IsQuiz(r) /\ upstream[r] = <<"ok">>

\* The data model's Question: four options in a list, an index into them, and
\* the option it names.
WellFormedQuestion(q) ==
  /\ q.options.t = "list"
  /\ Len(q.options.e) = 4
  /\ q.answer_index \in 0..3
  /\ q.correctAnswer = q.options.e[q.answer_index + 1]

\* An upstream item that meets the per-item validation of the specification:
\* an object with question, exactly 4 options and an integer answer_index in range.
WellFormedItem(it) ==
  /\ it.dict
  /\ it.question.present
  /\ it.options.t = "list"
  /\ Len(it.options.e) = 4
  /\ it.answer_index.t = "int"
  /\ it.answer_index.n \in 0..3

\* The positions among the first n of a reply that hold well-formed items, ascending.
WellFormedPositions(l, n) ==
  LET m == IF Len(l) < n THEN Len(l) ELSE n
      Good(p) == WellFormedItem(l[p])
  IN  SelectSeq([p \in 1..m |-> p], Good)

\* C1: every Question of a successful generate-quiz response has exactly 4
\* options, an answer_index in 0..3 and correctAnswer = options[answer_index],
\* whatever the upstream items were.
C1_ReturnedQuestionsWellFormed ==
  \A r \in Reqs :
    (IsQuiz(r) /\ resp[r].status = 200) =>
      \A i \in DOMAIN resp[r].questions : WellFormedQuestion(resp[r].questions[i])

\* C2: the target count is 5 for 'quick', 30 for 'full' and 10 otherwise; a
\* successful generate-quiz response never holds more questions than the target,
\* and a reply of exactly the target count of valid items is returned in full.
C2_TargetCount ==
  \A r \in Reqs :
    IsQuiz(r) =>
      LET target == IF req[r].mode = "quick" THEN 5
                    ELSE IF req[r].mode = "full" THEN 30 ELSE 10
          asked == /\ Len(items[r]) = target
                   /\ \A i \in DOMAIN items[r] : WellFormedItem(items[r][i])
      IN  /\ pc[r] \in {"call", "clean", "save", "return"} => count[r] = target
          /\ resp[r].status = 200 => Len(resp[r].questions) <= target
          /\ (pc[r] = "done" /\ GotItems(r) /\ asked) =>
               (resp[r].status = 200 /\ Len(resp[r].questions) = target)

\* C2's case: a 'full' request answered with 31 items returns 30 of them.
C2_Witness ==
  \E r \in Reqs :
    /\ IsQuiz(r) /\ pc[r] = "done" /\ req[r].mode = "full"
    /\ Len(items[r]) = 31
    /\ resp[r].status = 200 /\ Len(resp[r].questions) = 30

\* C3: a generate-quiz request whose upstream reply holds no valid item (every
\* item malformed, or an empty list) ends in a 502 and never in a success.
C3_NoValidItemFails ==
  \A r \in Reqs :
    (pc[r] = "done" /\ GotItems(r)
       /\ \A i \in DOMAIN items[r] : ~WellFormedItem(items[r][i]))
      => resp[r].status = 502

\* C4: when a reply mixes valid and malformed items, generate-quiz succeeds and
\* its questions are exactly the valid items among the first target-count items,
\* in the reply's order (question text i is the reply's i-th item).
C4_MalformedDroppedValidKept ==
  \A r \in Reqs :
    (pc[r] = "done" /\ GotItems(r)
       /\ WellFormedPositions(items[r], count[r]) # <<>>
       /\ \E i \in DOMAIN items[r] : ~WellFormedItem(items[r][i]))
      => /\ resp[r].status = 200
         /\ [i \in DOMAIN resp[r].questions |-> resp[r].questions[i].question]
              = WellFormedPositions(items[r], count[r])

\* C5: a 'topic' request whose topic is absent, empty or not in the subject's
\* syllabus list makes no upstream call and no store write, and ends in a 400.
C5_InvalidTopicRejected ==
  \A r \in Reqs :
    (/\ IsQuiz(r)
     /\ req[r].mode = "topic"
     /\ \/ req[r].topic = None
        \/ req[r].topic = ""
        \/ req[r].topic \notin Range(SyllabusGet(req[r].subject)))
      => /\ apiCalls[r] = 0
         /\ storeWrites[r] = 0
         /\ pc[r] \in {"recv", "done"}
         /\ pc[r] = "done" => resp[r].status = 400

\* C5's case: a topic of another subject's list has been rejected.
C5_Witness ==
  \E r \in Reqs :
    /\ IsQuiz(r) /\ pc[r] = "done" /\ resp[r].status = 400
    /\ req[r].mode = "topic" /\ req[r].subject = "Physics"
    /\ req[r].topic = "Atomic Structure"
    /\ apiCalls[r] = 0 /\ storeWrites[r] = 0

\* C6: a generate-quiz request whose subject is no key of the syllabus registry
\* makes no upstream call and, the API key being set, ends in a 400, in every mode.
C6_UnknownSubjectRejected ==
  \A r \in Reqs :
    (IsQuiz(r) /\ req[r].subject \notin DOMAIN NTA_SYLLABUS)
      => /\ apiCalls[r] = 0
         /\ (pc[r] = "done" /\ envKey) => resp[r].status = 400

\* The questions of the response of request r when no set() raises: the cleaned
\* items, the i-th with the i-th document id when there is a store.
NoFailQuestions(r) ==
  LET c == Cleaned(items[r], count[r], req[r].subject, req[r].topic)
  IN  [i \in 1..Len(c) |-> [c[i] EXCEPT !.id = IF db THEN i ELSE NoId]]

\* C7 as stated: a request that produced a valid question answers with status
\* 200 and the same body, every id included, whether or not a store write failed.
C7_StoreFailureSameBody ==
  \A r \in Reqs :
    (pc[r] = "done" /\ GotItems(r) /\ cleaned[r] # <<>>)
      => /\ resp[r].status = 200
         /\ resp[r].quizTitle = QuizTitle(req[r].subject, req[r].mode)
         /\ resp[r].questions = NoFailQuestions(r)

\* C7 amended: a request that produced a valid question answers with status 200,
\* the same quizTitle and the same questions in the same order, whether or not a
\* store write failed; only the id of each question after the one whose write
\* failed differs, being None.
C7_StoreFailureSameContent ==
  \A r \in Reqs :
    (pc[r] = "done" /\ GotItems(r) /\ cleaned[r] # <<>>)
      => LET nf == NoFailQuestions(r)
         IN  /\ resp[r].status = 200
             /\ resp[r].quizTitle = QuizTitle(req[r].subject, req[r].mode)
             /\ resp[r].questions =
                  [i \in 1..Len(nf) |->
                     IF saveFailed[r] /\ i > storeWrites[r]
                     THEN [nf[i] EXCEPT !.id = NoId]
                     ELSE nf[i]]

\* C7's case: the write of the second of at least three questions failed.
C7_Witness ==
  \E r \in Reqs :
    /\ pc[r] = "done" /\ GotItems(r) /\ saveFailed[r]
    /\ storeWrites[r] = 2 /\ Len(resp[r].questions) >= 3
    /\ resp[r].status = 200

\* C8: generate-explanation always answers 200 with a string explanation, and
\* answers the placeholder without an upstream call when question, options or
\* correctAnswer is missing from the body.
C8_ExplanationNeverFails ==
  \A r \in Reqs :
    (IsExplain(r) /\ pc[r] = "done")
      => /\ resp[r].status = 200
         /\ resp[r].explanation.t = "str"
         /\ (\/ ereq[r].question = Absent
             \/ ereq[r].options = OptMissing
             \/ ereq[r].correctAnswer = Absent)
              => (resp[r].explanation.kind = "missing" /\ apiCalls[r] = 0)

\* C8's case: a complete body, and the API key is not set.
C8_Witness ==
  \E r \in Reqs :
    /\ IsExplain(r) /\ pc[r] = "done" /\ ~envKey
    /\ ereq[r].question = "Q" /\ ereq[r].options = Opt4 /\ ereq[r].correctAnswer = "A"
    /\ resp[r].status = 200 /\ resp[r].explanation.kind = "fallback"

\* C9: a generate-quiz request whose upstream call times out ends in a 504,
\* a status no other upstream failure maps to.
C9_TimeoutIs504 ==
  \A r \in Reqs :
    (IsQuiz(r) /\ pc[r] = "done" /\ upstream[r] # <<>> /\ upstream[r][1] = "timeout")
      => resp[r].status = 504

\* C10: a call whose first attempt fails transiently (429, 503) while the service
\* would answer the next attempt is retried, and the request is not failed on
\* that first attempt.
C10_TransientFailureRetried ==
  \A r \in Reqs :
    (/\ IsQuiz(r) /\ pc[r] = "done"
     /\ Len(upstream[r]) >= 2
     /\ upstream[r][1] \in Transient
     /\ upstream[r][2] = "ok")
      => (apiCalls[r] >= 2 /\ resp[r].status # 502)

\* A request the endpoint is meant to serve: a subject of the registry and, in
\* 'topic' mode, a topic of that subject's list.
ValidRequest(q) ==
  /\ q.subject \in DOMAIN NTA_SYLLABUS
  /\ q.mode = "topic" => q.topic \in Range(NTA_SYLLABUS[q.subject])

\* C11: with the API key unset, a generate-quiz request never makes an upstream
\* call, and a valid request ends in a 500.
C11_MissingKeyFailsBeforeCall ==
  \A r \in Reqs :
    (IsQuiz(r) /\ ~envKey)
      => /\ apiCalls[r] = 0
         /\ upstream[r] = <<>>
         /\ (pc[r] = "done" /\ ValidRequest(req[r])) => resp[r].status = 500

\* C11's case: a valid 'topic' request has ended while the key is unset.
C11_Witness ==
  \E r \in Reqs :
    /\ IsQuiz(r) /\ ~envKey /\ pc[r] = "done"
    /\ req[r] = [subject |-> "Physics", mode |-> "topic", topic |-> "Kinematics"]
    /\ resp[r].status = 500 /\ apiCalls[r] = 0

\* C12: a generate-quiz request makes at most one upstream call and, whatever
\* the upstream answers, ends with one response, a success (200) or a failure.
C12_QuizTerminates ==
  /\ [](\A r \in Reqs : IsQuiz(r) => apiCalls[r] <= 1)
  /\ [](\A r \in Reqs : (IsQuiz(r) /\ pc[r] = "done") => resp[r].status \in {200, 400, 500, 502})
  /\ <>(\A r \in Reqs : IsQuiz(r) => (pc[r] = "done" /\ resp[r].status # 0))

\* C12's case: a reply of malformed items only has ended the request in a 502
\* after one upstream call.
C12_Witness ==
  \E r \in Reqs :
    /\ pc[r] = "done" /\ GotItems(r) /\ items[r] # <<>>
    /\ Cleaned(items[r], count[r], req[r].subject, req[r].topic) = <<>>
    /\ resp[r].status = 502 /\ apiCalls[r] = 1

\* C13: no question of a generate-quiz response comes from an upstream item whose
\* answer_index is not an integer (a numeric string, a fractional number, a
\* boolean): such an item is dropped, not coerced. Question text i is the
\* reply's i-th item.
C13_NonIntegerIndexDropped ==
  \A r \in Reqs :
    (IsQuiz(r) /\ resp[r].status = 200) =>
      \A i \in DOMAIN resp[r].questions :
        items[r][resp[r].questions[i].question].answer_index.t = "int"

\* C15: a question of a generate-quiz response carries an id other than None only
\* if the store holds a document with that id and that question's content; so
\* the question whose write failed, and every later one, has id None.
C15_IdOnlyIfWritten ==
  \A r \in Reqs :
    (IsQuiz(r) /\ resp[r].status = 200) =>
      \A i \in DOMAIN resp[r].questions :
        resp[r].questions[i].id # NoId => resp[r].questions[i] \in store

\* The status generate_quiz ends request r with when it runs alone on r's
\* request, r's upstream answer and r's items.
AloneStatus(r) ==
  IF TopicRejected(req[r].subject, req[r].mode, req[r].topic) THEN 400
  ELSE IF ~envKey THEN 500
  ELSE IF upstream[r][1] # "ok" THEN CallFailureStatus(upstream[r][1])
  ELSE IF Cleaned(items[r], TargetCount(req[r].mode), req[r].subject, req[r].topic) = <<>>
       THEN 502 ELSE 200

\* The fields of a question but its id.
WithoutId(q) == [q EXCEPT !.id = NoId]

\* The positions of the questions of all requests that were given an id.
Identified == {p \in Reqs \X (1..CountFull) : p[2] <= Len(cleaned[p[1]]) /\ cleaned[p[1]][p[2]].id # NoId}

\* C14: two generate-quiz requests in flight together do not interfere: each
\* ends with the status it has when run alone, a successful response holds
\* exactly the questions cleaned from its own reply, with its own subject, topic
\* and title, no two questions are given the same id, and every write adds a
\* document of its own to the store.
C14_RequestsDoNotInterfere ==
  /\ \A r \in Reqs :
       pc[r] = "done" =>
         /\ resp[r].status = AloneStatus(r)
         /\ resp[r].status = 200 =>
              /\ resp[r].quizTitle = QuizTitle(req[r].subject, req[r].mode)
              /\ [i \in DOMAIN resp[r].questions |-> WithoutId(resp[r].questions[i])]
                   = Cleaned(items[r], TargetCount(req[r].mode), req[r].subject, req[r].topic)
  /\ \A p, q \in Identified :
       cleaned[p[1]][p[2]].id = cleaned[q[1]][q[2]].id => p = q
  /\ \A d \in store : \E p \in Identified : cleaned[p[1]][p[2]] = d
  /\ Cardinality(store)
       = storeWrites[1] + storeWrites[2]
           - Cardinality({r \in Reqs : saveFailed[r]})

\* C14's case: both requests have succeeded and their writes interleaved, the
\* first request's questions holding ids 1 and 3, the second's id 2.
C14_Witness ==
  /\ pc[1] = "done" /\ pc[2] = "done"
  /\ resp[1].status = 200 /\ resp[2].status = 200
  /\ req[1].subject # req[2].subject
  /\ Len(resp[1].questions) = 2 /\ Len(resp[2].questions) >= 1
  /\ resp[1].questions[1].id = 1 /\ resp[1].questions[2].id = 3
  /\ resp[2].questions[1].id = 2
  /\ Cardinality(store) = 3

====
